---- MODULE Spec2Model ----
(***************************************************************************)
(* coreason-protocol: the ProtocolDefinition state machine (lock,          *)
(* override_term, inject_term, compile) of src/coreason_protocol/types.py  *)
(* and the StrategyCompiler of src/coreason_protocol/compiler.py.          *)
(*                                                                         *)
(* Python strings whose content the code inspects (hashes, reasons,        *)
(* labels, codes, the research question) are sequences of one-character    *)
(* strings; strings that are only compared (ids, keys, enum values) are    *)
(* TLA+ strings.  OntologyTerm objects live in a heap, because Python      *)
(* passes and stores them by reference: a block's terms list holds heap    *)
(* addresses, and the caller of inject_term keeps its reference.           *)
(***************************************************************************)
EXTENDS Integers, Sequences, FiniteSets, TLC

VARIABLES
    research_question,    \* ProtocolDefinition.research_question
    status,               \* ProtocolDefinition.status
    approval_history,     \* ProtocolDefinition.approval_history (None or ApprovalRecord)
    pico_structure,       \* ProtocolDefinition.pico_structure: the dict, in insertion order
    execution_strategies, \* ProtocolDefinition.execution_strategies
    heap,                 \* the OntologyTerm objects, by address
    pc,                   \* position inside lock(): "idle" when no call is running
    lock_user,            \* lock()'s argument user_id while the call runs
    protocol_hash,        \* lock()'s local protocol_hash while the call runs
    veritas,              \* the register_protocol calls of the most recent call: count, payload
    registered,           \* the payload registered under the hash held by approval_history
    calls,                \* number of calls made on the protocol so far
    ret                   \* outcome of the most recent call

vars == <<research_question, status, approval_history, pico_structure, execution_strategies, heap,
          pc, lock_user, protocol_hash, veritas, registered, calls, ret>>

\* Optional[...] values: None is the empty sequence, a value v is <<v>>
None == <<>>
Some(v) == <<v>>

(***************************************************************************)
(* Bounds of the model.                                                    *)
(***************************************************************************)
NumTerms == 3        \* OntologyTerm objects the caller has created
MaxCalls == 3        \* calls made on the protocol in one run

(***************************************************************************)
(* Strings.                                                                *)
(***************************************************************************)
Whitespace == {" ", "\t", "\n"}

RECURSIVE LStrip(_)
LStrip(s) == IF s # <<>> /\ Head(s) \in Whitespace THEN LStrip(Tail(s)) ELSE s

RECURSIVE RStrip(_)
RStrip(s) ==
    IF s # <<>> /\ s[Len(s)] \in Whitespace THEN RStrip(SubSeq(s, 1, Len(s) - 1)) ELSE s

\* str.strip()
Strip(s) == RStrip(LStrip(s))

\* the test `not v or not v.strip()` of the validators
\* mutant: the value is tested for emptiness without strip()
IsBlank_NoStrip(v) == v = <<>>

IsBlank(v) == v = <<>> \/ Strip(v) = <<>>

(***************************************************************************)
(* Enumerations.                                                           *)
(***************************************************************************)
DRAFT == "DRAFT"
PENDING_REVIEW == "PENDING_REVIEW"
APPROVED == "APPROVED"
EXECUTED == "EXECUTED"
ProtocolStatus == {DRAFT, PENDING_REVIEW, APPROVED, EXECUTED}

\* the order DRAFT -> PENDING_REVIEW -> APPROVED -> EXECUTED
StatusRank(s) ==
    CASE s = DRAFT -> 0 [] s = PENDING_REVIEW -> 1 [] s = APPROVED -> 2 [] s = EXECUTED -> 3

USER_INPUT == "USER_INPUT"
SYSTEM_EXPANSION == "SYSTEM_EXPANSION"
HUMAN_INJECTION == "HUMAN_INJECTION"
TermOrigin == <<USER_INPUT, SYSTEM_EXPANSION, HUMAN_INJECTION>>

BlockTypes == <<"P", "I", "C", "O", "S">>
LogicOperators == {"AND", "OR", "NOT"}

\* mutant: any block_type is accepted
validate_block_type_Any(v) == TRUE

\* PicoBlock.validate_block_type / validate_logic_operator
validate_block_type(v) == v \in {BlockTypes[i] : i \in 1..Len(BlockTypes)}
validate_logic_operator(v) == v \in LogicOperators

(***************************************************************************)
(* The OntologyTerm objects of a run.  The caller builds NumTerms objects; *)
(* object a has id TermIdOf(a), so that objects 1 and 3 are two distinct   *)
(* objects with the same id.                                               *)
(***************************************************************************)
TermAddrs == 1..NumTerms
TermIds == <<"t1", "t2">>
TermIdSet == {TermIds[i] : i \in 1..Len(TermIds)}
TermIdOf(a) == TermIds[((a - 1) % Len(TermIds)) + 1]
OriginOf(a) == TermOrigin[((a - 1) % Len(TermOrigin)) + 1]
TermLabels == << <<"A">>, <<" ", "B", "\"">>, <<"C", "\"", "c", "\t">>, <<"D">> >>
TermCodes == << <<"1">>, <<"2", "'">>, <<>>, <<"4">> >>
VocabSources == << "MeSH", "ICD-10", "mesh" >>

\* OntologyTerm(id=..., label=..., vocab_source=..., code=..., origin=...)
OntologyTerm(a) ==
    [id |-> TermIdOf(a),
     label |-> TermLabels[((a - 1) % Len(TermLabels)) + 1],
     vocab_source |-> VocabSources[((a - 1) % Len(VocabSources)) + 1],
     code |-> TermCodes[((a - 1) % Len(TermCodes)) + 1],
     origin |-> OriginOf(a),
     is_active |-> TRUE,
     override_reason |-> None]

\* PicoBlock(block_type=..., description=..., terms=..., logic_operator="OR")
PicoBlock(bt, desc, ts, op) ==
    [block_type |-> bt, description |-> desc, terms |-> ts, logic_operator |-> op]

\* an item of the dict pico_structure: key and PicoBlock
Item(k, b) == [key |-> k, block |-> b]

Keys(pico) == {pico[i].key : i \in 1..Len(pico)}
HasKey(pico, k) == k \in Keys(pico)
IndexOfKey(pico, k) == CHOOSE i \in 1..Len(pico) : pico[i].key = k
\* pico_structure[k]
Get(pico, k) == pico[IndexOfKey(pico, k)].block

\* ProtocolDefinition.validate_pico_structure: TRUE when the dict is accepted
validate_pico_structure(v) ==
    \A i \in 1..Len(v) : v[i].key = v[i].block.block_type

(***************************************************************************)
(* Construction.  The protocols a run starts from: a pico_structure whose  *)
(* keys are any sequence of distinct InitKeys (the dict's insertion        *)
(* order), each block holding no term or one of the caller's term          *)
(* objects (the same object may sit in two blocks, as in the fixtures of   *)
(* tests/test_lock.py), and any status.                                    *)
(***************************************************************************)
InitKeys == {"P", "I"}
InitKeySeqs ==
    {<<>>} \cup {<<k>> : k \in InitKeys}
           \cup {ks \in InitKeys \X InitKeys : ks[1] # ks[2]}
InitTermLists == {<<>>} \cup {<<a>> : a \in TermAddrs}
Description == <<"d">>
ResearchQuestion == <<"Q", "\"">>

InitStructures ==
    UNION {
        {[i \in 1..Len(ks) |-> Item(ks[i], PicoBlock(ks[i], Description, tl[i], "OR"))] :
            tl \in [1..Len(ks) -> InitTermLists]} :
        ks \in InitKeySeqs}

\* dicts whose first key is not the block_type of its block
MismatchedStructures ==
    {[pico EXCEPT ![1].key = k] :
        pico \in {v \in InitStructures : v # <<>>}, k \in InitKeys}

\* the pico_structure arguments given to the constructor
ConstructorInputs == InitStructures \cup MismatchedStructures

UserIds == {"u1", "u2"}
NoUser == ""
Times == {1}
\* what register_protocol may return
HashInputs == {<<>>, <<" ">>, <<" ", "h">>}

\* mutant: the hash is tested for emptiness without strip()
validate_hash_NoStrip(v) == v # <<>>

\* ApprovalRecord.validate_hash: TRUE when the value is accepted
validate_hash(v) == ~IsBlank(v)

\* mutant: the record stores the stripped hash
ApprovalRecord_Stripped(approver, t, h) ==
    [approver_id |-> approver, timestamp |-> [time |-> t, tzinfo |-> "UTC"],
     veritas_hash |-> Strip(h)]

\* ApprovalRecord(approver_id=..., timestamp=..., veritas_hash=...)
ApprovalRecord(approver, t, h) ==
    [approver_id |-> approver, timestamp |-> [time |-> t, tzinfo |-> "UTC"],
     veritas_hash |-> h]

InitApprovals(st) ==
    IF st \in {APPROVED, EXECUTED}
    THEN {None, Some(ApprovalRecord("u0", 1, <<"h", "0">>))}
    ELSE {None}

\* the protocol instance, as a returned reference
Self == [ref |-> "self"]
\* no call of register_protocol
NoCalls == [calls |-> 0, payload |-> None]
\* no exception raised
NoException == ""
InitRet == [op |-> "init", raised |-> NoException, msg |-> <<>>, value |-> <<>>]
Returned(op, v) == [op |-> op, raised |-> NoException, msg |-> <<>>, value |-> v]
Raised(op, kind, m) == [op |-> op, raised |-> kind, msg |-> m, value |-> <<>>]

\* ProtocolDefinition(id=..., title=..., research_question=..., pico_structure=..., status=...)
\* ProtocolDefinition(..., research_question=question, pico_structure=pico, status=st)
\* the protocol over the term objects h
ConstructOver(question, st, ah, pico, h) ==
    /\ validate_pico_structure(pico)
    /\ research_question = question
    /\ status = st
    /\ approval_history = ah
    /\ pico_structure = pico
    /\ execution_strategies = <<>>
    /\ heap = h
    /\ pc = "idle"
    /\ lock_user = NoUser
    /\ protocol_hash = <<>>
    /\ veritas = NoCalls
    /\ registered = None
    /\ calls = 0
    /\ ret = InitRet

\* the protocol over the caller's terms
ConstructAsking(question, st, ah, pico) ==
    ConstructOver(question, st, ah, pico, [a \in TermAddrs |-> OntologyTerm(a)])

Construct(st, ah, pico) == ConstructAsking(ResearchQuestion, st, ah, pico)

Init ==
    \E st \in ProtocolStatus : \E ah \in InitApprovals(st) : \E pico \in ConstructorInputs :
        Construct(st, ah, pico)

\* a protocol built with the defaults status=DRAFT, approval_history=None
InitDraft == \E pico \in ConstructorInputs : Construct(DRAFT, None, pico)

\* the protocols given to the compilers: blocks of any logic_operator holding
\* no term, one of the caller's terms or two of them
CompileTermLists ==
    {<<>>} \cup {<<a>> : a \in TermAddrs}
           \cup {<<a, a + 1>> : a \in TermAddrs \ {NumTerms}}
CompileStructures ==
    UNION {
        {[i \in 1..Len(ks) |-> Item(ks[i], PicoBlock(ks[i], Description, tl[i], op[i]))] :
            tl \in [1..Len(ks) -> CompileTermLists], op \in [1..Len(ks) -> LogicOperators]} :
        ks \in InitKeySeqs}
\* protocols of three blocks inserted out of the order P, I, C, O, S, each
\* holding no term, the first term or the next two
ChainStructures ==
    LET ks == <<"S", "P", "O">> IN
    {[i \in 1..3 |-> Item(ks[i], PicoBlock(ks[i], Description, tl[i], "OR"))] :
        tl \in [1..3 -> {<<>>, <<1>>, <<2, 3>>}]}
ResearchQuestions ==
    {ResearchQuestion,
     <<"\\", "\n", "\t", "\r", "\f", "é">>,
     <<"\"", ",", " ", "\"", "x", "\"", ":", " ", "\"", "y">>}

\* every structure under the default question, the structures of Init under every question
InitCompile ==
    \E question \in ResearchQuestions : \E pico \in CompileStructures \cup ChainStructures :
        /\ question = ResearchQuestion \/ pico \in InitStructures
        /\ ConstructAsking(question, DRAFT, None, pico)

(***************************************************************************)
(* model_dump(mode="json"): the complete protocol by value.                *)
(***************************************************************************)
\* mutant: the dump leaves out the inactive terms
DumpBlock_ActiveOnly(b, h) ==
    [block_type |-> b.block_type, description |-> b.description,
     terms |-> LET active == SelectSeq(b.terms, LAMBDA a : h[a].is_active)
               IN  [j \in 1..Len(active) |-> h[active[j]]],
     logic_operator |-> b.logic_operator]

\* PicoBlock.model_dump()
DumpBlock(b, h) ==
    [block_type |-> b.block_type, description |-> b.description,
     terms |-> [j \in 1..Len(b.terms) |-> h[b.terms[j]]],
     logic_operator |-> b.logic_operator]

DumpPico(pico, h) == [i \in 1..Len(pico) |-> Item(pico[i].key, DumpBlock(pico[i].block, h))]

model_dump ==
    [research_question |-> research_question,
     pico_structure |-> DumpPico(pico_structure, heap),
     execution_strategies |-> execution_strategies,
     status |-> status,
     approval_history |-> approval_history]

(***************************************************************************)
(* lock(user_id, veritas_client), in three steps: the guards and the call  *)
(* of register_protocol; the construction and assignment of the            *)
(* ApprovalRecord; the assignment of status and the return.                *)
(***************************************************************************)
\* mutant: the empty-structure guard runs before the status guard
LockGuard_EmptyFirst(st, pico) ==
    IF pico = <<>> THEN <<"EmptyPicoStructure">>
    ELSE IF st \in {APPROVED, EXECUTED} THEN <<"AlreadyApprovedOrExecuted">>
    ELSE IF st # DRAFT THEN <<"CannotLockInState", st>>
    ELSE <<>>

\* mutant: lock checks the structure and never the status
LockGuard_NoStatus(st, pico) == IF pico = <<>> THEN <<"EmptyPicoStructure">> ELSE <<>>

\* mutant: lock has no empty-structure guard
LockGuard_NoEmpty(st, pico) ==
    IF st \in {APPROVED, EXECUTED} THEN <<"AlreadyApprovedOrExecuted">>
    ELSE IF st # DRAFT THEN <<"CannotLockInState", st>>
    ELSE <<>>

\* the guards of lock, in the order of the code: the failure raised, or <<>>
LockGuard(st, pico) ==
    IF st \in {APPROVED, EXECUTED} THEN <<"AlreadyApprovedOrExecuted">>
    ELSE IF pico = <<>> THEN <<"EmptyPicoStructure">>
    ELSE IF st # DRAFT THEN <<"CannotLockInState", st>>
    ELSE <<>>

LockFrame == <<pc, lock_user, protocol_hash>>

\* a new call on the protocol: runs are cut after MaxCalls calls
Call == calls < MaxCalls /\ calls' = calls + 1
Protocol == <<status, approval_history, pico_structure, execution_strategies, heap>>

\* a guard raises ValueError: nothing is registered
LockRejected ==
    /\ pc = "idle"
    /\ UNCHANGED research_question
    /\ Call
    /\ LockGuard(status, pico_structure) # <<>>
    /\ veritas' = NoCalls
    /\ ret' = Raised("lock", "ValueError", LockGuard(status, pico_structure))
    /\ UNCHANGED <<Protocol, LockFrame, registered>>

\* mutant: a registrar failure is retried once before it propagates
LockRegisterRaises_Retry ==
    /\ pc = "idle"
    /\ UNCHANGED research_question
    /\ Call
    /\ LockGuard(status, pico_structure) = <<>>
    /\ veritas' = [calls |-> 2, payload |-> Some(model_dump)]
    /\ ret' = Raised("lock", "Exception", <<"RegistrarFailure">>)
    /\ UNCHANGED <<Protocol, LockFrame, registered>>

\* register_protocol(self.model_dump(mode="json")) raises: the exception propagates
LockRegisterRaises ==
    /\ pc = "idle"
    /\ UNCHANGED research_question
    /\ Call
    /\ LockGuard(status, pico_structure) = <<>>
    /\ veritas' = [calls |-> 1, payload |-> Some(model_dump)]
    /\ ret' = Raised("lock", "Exception", <<"RegistrarFailure">>)
    /\ UNCHANGED <<Protocol, LockFrame, registered>>

\* register_protocol(self.model_dump(mode="json")) returns a hash
LockRegister(user_id, h) ==
    /\ pc = "idle"
    /\ UNCHANGED research_question
    /\ Call
    /\ LockGuard(status, pico_structure) = <<>>
    /\ veritas' = [calls |-> 1, payload |-> Some(model_dump)]
    /\ pc' = "registered"
    /\ lock_user' = user_id
    /\ protocol_hash' = h
    /\ ret' = Returned("lock", <<>>)
    /\ UNCHANGED <<Protocol, registered>>

\* mutant: status is assigned before the ApprovalRecord is built
LockRecordRejected_StatusFirst ==
    /\ pc = "registered"
    /\ UNCHANGED research_question
    /\ ~validate_hash(protocol_hash)
    /\ status' = APPROVED
    /\ pc' = "idle"
    /\ lock_user' = NoUser
    /\ protocol_hash' = <<>>
    /\ ret' = Raised("lock", "ValidationError", <<"veritas_hash cannot be empty">>)
    /\ UNCHANGED <<approval_history, pico_structure, execution_strategies, heap,
                   veritas, registered, calls>>

\* ApprovalRecord(...) fails validation: lock raises before any assignment
LockRecordRejected ==
    /\ pc = "registered"
    /\ UNCHANGED research_question
    /\ ~validate_hash(protocol_hash)
    /\ pc' = "idle"
    /\ lock_user' = NoUser
    /\ protocol_hash' = <<>>
    /\ ret' = Raised("lock", "ValidationError", <<"veritas_hash cannot be empty">>)
    /\ UNCHANGED <<Protocol, veritas, registered, calls>>

\* self.approval_history = ApprovalRecord(...)
LockRecord(now) ==
    /\ pc = "registered"
    /\ UNCHANGED research_question
    /\ validate_hash(protocol_hash)
    /\ approval_history' = Some(ApprovalRecord(lock_user, now, protocol_hash))
    /\ registered' = veritas.payload
    /\ pc' = "recorded"
    /\ UNCHANGED <<status, pico_structure, execution_strategies, heap, lock_user,
                   protocol_hash, veritas, calls, ret>>

\* self.status = ProtocolStatus.APPROVED; return self
LockApprove ==
    /\ pc = "recorded"
    /\ UNCHANGED research_question
    /\ status' = APPROVED
    /\ pc' = "idle"
    /\ lock_user' = NoUser
    /\ protocol_hash' = <<>>
    /\ ret' = Returned("lock", <<Self>>)
    /\ UNCHANGED <<approval_history, pico_structure, execution_strategies, heap,
                   veritas, registered, calls>>

(***************************************************************************)
(* The scan `for block in self.pico_structure.values(): for term in        *)
(* block.terms` of override_term and inject_term: positions <<i, j>> in    *)
(* the order of the iteration.                                             *)
(***************************************************************************)
Positions(pico) ==
    UNION {{<<i, j>> : j \in 1..Len(pico[i].block.terms)} : i \in 1..Len(pico)}

TermAt(pico, p) == pico[p[1]].block.terms[p[2]]

Before(p, q) == p[1] < q[1] \/ (p[1] = q[1] /\ p[2] <= q[2])

\* the positions holding a term with this id
Matches(pico, h, id) == {p \in Positions(pico) : h[TermAt(pico, p)].id = id}

\* mutant: the scan goes on to the last match
FirstMatch_Last(pico, h, id) ==
    CHOOSE p \in Matches(pico, h, id) : \A q \in Matches(pico, h, id) : Before(q, p)

\* the first position the iteration meets
FirstMatch(pico, h, id) ==
    CHOOSE p \in Matches(pico, h, id) : \A q \in Matches(pico, h, id) : Before(p, q)

\* mutant: only an executed protocol is frozen
ModifyGuard_ApprovedMutable(st) ==
    IF st = EXECUTED THEN <<"NotModifiable", EXECUTED>> ELSE <<>>

\* the status guards shared by override_term and inject_term: the failure, or <<>>
ModifyGuard(st) ==
    IF st = APPROVED THEN <<"NotModifiable", APPROVED>>
    ELSE IF st = EXECUTED THEN <<"NotModifiable", EXECUTED>>
    ELSE IF st \notin {DRAFT, PENDING_REVIEW} THEN <<"NotModifiableInState", st>>
    ELSE <<>>

Governance == <<status, approval_history>>
Rest == <<execution_strategies, pc, lock_user, protocol_hash, registered>>

(***************************************************************************)
(* override_term(term_id, reason)                                          *)
(***************************************************************************)
ReasonInputs == {<<>>, <<" ">>, <<"r">>, <<"s", " ">>}
TermIdInputs == TermIdSet \cup {"t9"}

\* mutant: override toggles is_active
SoftDelete_Toggle(t, reason) ==
    [t EXCEPT !.is_active = ~@, !.override_reason = Some(reason)]

\* mutant: a reason already stored is kept
SoftDelete_KeepReason(t, reason) ==
    [t EXCEPT !.is_active = FALSE,
              !.override_reason = IF @ = None THEN Some(reason) ELSE @]

\* term.is_active = False; term.override_reason = reason
SoftDelete(t, reason) == [t EXCEPT !.is_active = FALSE, !.override_reason = Some(reason)]

\* mutant: the status is not looked at
OverrideOutcome_AnyStatus(st, pico, h, term_id, reason) ==
    IF IsBlank(reason) THEN
        [ret |-> Raised("override_term", "ValueError", <<"EmptyReason">>), heap |-> h]
    ELSE IF Matches(pico, h, term_id) = {} THEN
        [ret |-> Raised("override_term", "ValueError", <<"TermNotFound", term_id>>),
         heap |-> h]
    ELSE LET a == TermAt(pico, FirstMatch(pico, h, term_id)) IN
        [ret |-> Returned("override_term", <<>>),
         heap |-> [h EXCEPT ![a] = SoftDelete(h[a], reason)]]

\* what override_term(term_id, reason) does on a protocol of status st, blocks
\* pico and terms h: the outcome of the call and the terms after it
OverrideOutcome(st, pico, h, term_id, reason) ==
    IF ModifyGuard(st) # <<>> THEN
        [ret |-> Raised("override_term", "RuntimeError", ModifyGuard(st)), heap |-> h]
    ELSE IF IsBlank(reason) THEN
        [ret |-> Raised("override_term", "ValueError", <<"EmptyReason">>), heap |-> h]
    ELSE IF Matches(pico, h, term_id) = {} THEN
        [ret |-> Raised("override_term", "ValueError", <<"TermNotFound", term_id>>),
         heap |-> h]
    ELSE LET a == TermAt(pico, FirstMatch(pico, h, term_id)) IN
        [ret |-> Returned("override_term", <<>>),
         heap |-> [h EXCEPT ![a] = SoftDelete(h[a], reason)]]

override_term(term_id, reason) ==
    /\ pc = "idle"
    /\ UNCHANGED research_question
    /\ Call
    /\ veritas' = NoCalls
    /\ ret' = OverrideOutcome(status, pico_structure, heap, term_id, reason).ret
    /\ heap' = OverrideOutcome(status, pico_structure, heap, term_id, reason).heap
    /\ UNCHANGED <<Governance, pico_structure, Rest>>

(***************************************************************************)
(* inject_term(block_type, term): term is the caller's object at address a *)
(***************************************************************************)
InjectBlockTypes == {"P", "O", "X"}

\* what the uniqueness scan of inject_term decides: "append", "ignore" or "conflict"
UniquenessScan(pico, h, block_type, id) ==
    IF Matches(pico, h, id) = {} THEN "append"
    ELSE IF block_type = pico[FirstMatch(pico, h, id)[1]].block.block_type THEN "ignore"
    ELSE "conflict"

\* mutant: the caller's origin is kept
ForceOrigin_Keep(t) == t

\* term.origin = TermOrigin.HUMAN_INJECTION
ForceOrigin(t) == [t EXCEPT !.origin = HUMAN_INJECTION]

\* self.pico_structure[block_type] = PicoBlock(block_type, description=block_type, terms=[])
WithBlock(pico, block_type) ==
    IF HasKey(pico, block_type) THEN pico
    ELSE Append(pico, Item(block_type, PicoBlock(block_type, <<block_type>>, <<>>, "OR")))

\* mutant: the term is put at the front of the block
AppendTerm_Front(pico, block_type, a) ==
    [pico EXCEPT ![IndexOfKey(pico, block_type)].block.terms = <<a>> \o @]

\* self.pico_structure[block_type].terms.append(term)
AppendTerm(pico, block_type, a) ==
    [pico EXCEPT ![IndexOfKey(pico, block_type)].block.terms = Append(@, a)]

\* what inject_term(block_type, term) does on a protocol of status st, blocks
\* pico and terms h, term being the object at address a: the outcome of the
\* call, the terms and the blocks after it
InjectOutcome(st, pico, h, block_type, a) ==
    IF ModifyGuard(st) # <<>> THEN
        [ret |-> Raised("inject_term", "RuntimeError", ModifyGuard(st)),
         heap |-> h, pico |-> pico]
    ELSE LET scan == UniquenessScan(pico, h, block_type, h[a].id) IN
        IF scan = "ignore" THEN
            [ret |-> Returned("inject_term", <<>>), heap |-> h, pico |-> pico]
        ELSE IF scan = "conflict" THEN
            [ret |-> Raised("inject_term", "ValueError",
                        <<"TermExists", h[a].id,
                          pico[FirstMatch(pico, h, h[a].id)[1]].block.block_type>>),
             heap |-> h, pico |-> pico]
        ELSE IF ~HasKey(pico, block_type) /\ ~validate_block_type(block_type) THEN
            [ret |-> Raised("inject_term", "ValidationError",
                            <<"InvalidBlockType", block_type>>),
             heap |-> [h EXCEPT ![a] = ForceOrigin(h[a])], pico |-> pico]
        ELSE
            [ret |-> Returned("inject_term", <<>>),
             heap |-> [h EXCEPT ![a] = ForceOrigin(h[a])],
             pico |-> AppendTerm(WithBlock(pico, block_type), block_type, a)]

inject_term(block_type, a) ==
    /\ pc = "idle"
    /\ UNCHANGED research_question
    /\ Call
    /\ veritas' = NoCalls
    /\ ret' = InjectOutcome(status, pico_structure, heap, block_type, a).ret
    /\ heap' = InjectOutcome(status, pico_structure, heap, block_type, a).heap
    /\ pico_structure' = InjectOutcome(status, pico_structure, heap, block_type, a).pico
    /\ UNCHANGED <<Governance, Rest>>

(***************************************************************************)
(* The compilers of compiler.py.  A query string is the sequence of its    *)
(* characters.                                                             *)
(***************************************************************************)
\* the literal pieces of the query syntaxes
MeshTag == <<"[", "M", "e", "s", "h", "]">>
TiAbTag == <<"[", "T", "i", "A", "b", "]">>
NotOpen == <<"(", "N", "O", "T", " ">>
OrSep == <<" ", "O", "R", " ">>
AndSep == <<" ", "A", "N", "D", " ">>
VectorOpen == <<"{", "\"", "v", "e", "c", "t", "o", "r", "\"", ":", " ">>
FilterSep == <<",", " ", "\"", "f", "i", "l", "t", "e", "r", "\"", ":", " ">>
AnchorMatch == <<"M", "A", "T", "C", "H", " ", "(", "p", ":", "P", "u", "b", "l", "i", "c", "a", "t", "i", "o", "n", ")", "-", "[", ":", "H", "A", "S", "_", "M", "E", "S", "H", "]", "-", ">", "(", "t", ":", "T", "e", "r", "m", ")", " ", "W", "H", "E", "R", "E", " ", "t", ".", "c", "o", "d", "e", " ", "I", "N", " ">>
NextMatch == <<"M", "A", "T", "C", "H", " ", "(", "p", ")", "-", "[", ":", "H", "A", "S", "_", "M", "E", "S", "H", "]", "-", ">", "(", "t", ":", "T", "e", "r", "m", ")", " ", "W", "H", "E", "R", "E", " ", "t", ".", "c", "o", "d", "e", " ", "I", "N", " ">>
WithP == <<"W", "I", "T", "H", " ", "p">>
ReturnP == <<"R", "E", "T", "U", "R", "N", " ", "p">>

\* str.replace(c, r) for a single character c and a string r
RECURSIVE Replace(_, _, _)
Replace(s, c, r) ==
    IF s = <<>> THEN <<>>
    ELSE (IF Head(s) = c THEN r ELSE <<Head(s)>>) \o Replace(Tail(s), c, r)

\* sep.join(parts)
RECURSIVE Join(_, _)
Join(parts, sep) ==
    IF parts = <<>> THEN <<>>
    ELSE IF Len(parts) = 1 THEN parts[1]
    ELSE parts[1] \o sep \o Join(Tail(parts), sep)

\* mutant: the inactive terms are compiled too
ActiveTerms_All(ts, h) == [j \in 1..Len(ts) |-> h[ts[j]]]

\* [t for t in block.terms if t.is_active], by value
RECURSIVE ActiveTerms(_, _)
ActiveTerms(ts, h) ==
    IF ts = <<>> THEN <<>>
    ELSE (IF h[Head(ts)].is_active THEN <<h[Head(ts)]>> ELSE <<>>) \o ActiveTerms(Tail(ts), h)

\* mutant: the blocks are met in the order of the dict
OrderedBlocks_Inserted(pico, order) == [i \in 1..Len(pico) |-> pico[i].block]

\* the blocks met by `for block_type in order: if block_type not in pico: continue`
RECURSIVE OrderedBlocks(_, _)
OrderedBlocks(pico, order) ==
    IF order = <<>> THEN <<>>
    ELSE (IF HasKey(pico, Head(order)) THEN <<Get(pico, Head(order))>> ELSE <<>>)
         \o OrderedBlocks(pico, Tail(order))

\* VocabSource.MESH.value
MESH == "MeSH"

\* mutant: the label is trimmed and its quotes are kept
_sanitize_label_Trim(label) == Strip(label)

\* PubMedCompiler._sanitize_label
_sanitize_label(label) == Replace(Strip(label), "\"", <<"'">>)

\* PubMedCompiler._format_pubmed_term
_format_pubmed_term(term) ==
    <<"\"">> \o _sanitize_label(term.label) \o <<"\"">>
    \o (IF term.vocab_source = MESH THEN MeshTag ELSE TiAbTag)

\* boolean.py expressions: algebra.Symbol(obj), algebra.NOT(x), algebra.OR(*xs), algebra.AND(*xs)
Symbol(obj) == [kind |-> "Symbol", obj |-> obj, args |-> <<>>]
NOT(x) == [kind |-> "NOT", obj |-> <<>>, args |-> <<x>>]
OR(xs) == [kind |-> "OR", obj |-> <<>>, args |-> xs]
AND(xs) == [kind |-> "AND", obj |-> <<>>, args |-> xs]

\* PubMedCompiler._render_pubmed_ast
RECURSIVE _render_pubmed_ast(_)
_render_pubmed_ast(expr) ==
    LET children == [i \in 1..Len(expr.args) |-> _render_pubmed_ast(expr.args[i])] IN
    CASE expr.kind = "Symbol" -> expr.obj
      [] expr.kind = "NOT" -> NotOpen \o children[1] \o <<")">>
      [] expr.kind = "OR" -> <<"(">> \o Join(children, OrSep) \o <<")">>
      [] expr.kind = "AND" -> <<"(">> \o Join(children, AndSep) \o <<")">>

\* mutant: a NOT block is the negation of the disjunction of its terms
BlockExpr_NotOfOr(block, active) ==
    LET term_symbols == [i \in 1..Len(active) |-> Symbol(_format_pubmed_term(active[i]))] IN
    IF Len(term_symbols) = 1 THEN term_symbols[1]
    ELSE IF block.logic_operator = "AND" THEN AND(term_symbols)
    ELSE IF block.logic_operator = "NOT" THEN NOT(OR(term_symbols))
    ELSE OR(term_symbols)

\* the expression PubMedCompiler.compile builds for one block with active terms
BlockExpr(block, active) ==
    LET term_symbols == [i \in 1..Len(active) |-> Symbol(_format_pubmed_term(active[i]))] IN
    IF Len(term_symbols) = 1 THEN term_symbols[1]
    ELSE IF block.logic_operator = "OR" THEN OR(term_symbols)
    ELSE IF block.logic_operator = "AND" THEN AND(term_symbols)
    ELSE IF block.logic_operator = "NOT"
         THEN AND([i \in 1..Len(term_symbols) |-> NOT(term_symbols[i])])
    ELSE OR(term_symbols)

\* the blocks that survive: present, in canonical order, with an active term
RECURSIVE Surviving(_, _)
Surviving(blocks, h) ==
    IF blocks = <<>> THEN <<>>
    ELSE (IF ActiveTerms(Head(blocks).terms, h) # <<>> THEN <<Head(blocks)>> ELSE <<>>)
         \o Surviving(Tail(blocks), h)

\* PubMedCompiler.compile
PubMedCompile(pico, h) ==
    LET blocks == Surviving(OrderedBlocks(pico, BlockTypes), h)
        block_exprs == [i \in 1..Len(blocks) |->
                            BlockExpr(blocks[i], ActiveTerms(blocks[i].terms, h))]
    IN  IF block_exprs = <<>> THEN <<>>
        ELSE IF Len(block_exprs) = 1 THEN _render_pubmed_ast(block_exprs[1])
        ELSE _render_pubmed_ast(AND(block_exprs))

\* json.dumps of one character of a str (ensure_ascii): the escapes of the
\* quote, the backslash, the control characters and a character beyond ASCII
JsonChar(c) ==
    CASE c = "\"" -> <<"\\", "\"">>
      [] c = "\\" -> <<"\\", "\\">>
      [] c = "\n" -> <<"\\", "n">>
      [] c = "\r" -> <<"\\", "r">>
      [] c = "\t" -> <<"\\", "t">>
      [] c = "\f" -> <<"\\", "f">>
      [] c = "é" -> <<"\\", "u", "0", "0", "e", "9">>
      [] OTHER -> <<c>>

\* mutant: the string between quotes, nothing escaped
JsonString_Raw(v) == <<"\"">> \o v \o <<"\"">>

\* json.dumps of a str (ensure_ascii): the quoted, escaped string
JsonString(v) ==
    <<"\"">> \o Join([i \in 1..Len(v) |-> JsonChar(v[i])], <<>>) \o <<"\"">>

\* LanceDBCompiler.compile
LanceDBCompile(question) ==
    VectorOpen \o JsonString(question) \o FilterSep \o JsonString(<<>>) \o <<"}">>

\* mutant: the list literal holds the labels of the active terms
CodesStr_Labels(active) ==
    <<"[">>
    \o Join([i \in 1..Len(active) |->
                <<"'">> \o Replace(active[i].label, "'", <<"\\", "'">>) \o <<"'">>],
            <<",", " ">>)
    \o <<"]">>

\* the list literal GraphCompiler.compile builds from the codes of the active terms
CodesStr(active) ==
    <<"[">>
    \o Join([i \in 1..Len(active) |->
                <<"'">> \o Replace(active[i].code, "'", <<"\\", "'">>) \o <<"'">>],
            <<",", " ">>)
    \o <<"]">>

\* the parts GraphCompiler.compile appends for the surviving blocks from index i on
RECURSIVE GraphParts(_, _, _)
GraphParts(blocks, h, first_block) ==
    IF blocks = <<>> THEN <<>>
    ELSE LET codes_str == CodesStr(ActiveTerms(Head(blocks).terms, h)) IN
         (IF first_block THEN <<AnchorMatch \o codes_str>>
          ELSE <<WithP, NextMatch \o codes_str>>)
         \o GraphParts(Tail(blocks), h, FALSE)

\* mutant: the return clause closes the chain even when no block survives
GraphCompile_DanglingReturn(pico, h) ==
    Join(Append(GraphParts(Surviving(OrderedBlocks(pico, BlockTypes), h), h, TRUE), ReturnP),
         <<" ">>)

\* GraphCompiler.compile
GraphCompile(pico, h) ==
    LET parts == GraphParts(Surviving(OrderedBlocks(pico, BlockTypes), h), h, TRUE) IN
    IF parts = <<>> THEN <<>>
    ELSE Join(Append(parts, ReturnP), <<" ">>)

(***************************************************************************)
(* StrategyCompiler.compile and ProtocolDefinition.compile                 *)
(***************************************************************************)
\* Target.PUBMED.value, Target.LANCEDB.value, Target.GRAPH.value: the registry's keys
Registry == {"PUBMED", "LANCEDB", "GRAPH"}
TargetInputs == Registry \cup {"SQL"}

\* compiler.compile(protocol) of the compiler registered for the target
QueryString(target, pico, h) ==
    CASE target = "PUBMED" -> PubMedCompile(pico, h)
      [] target = "LANCEDB" -> LanceDBCompile(research_question)
      [] target = "GRAPH" -> GraphCompile(pico, h)

\* ExecutableStrategy(target=..., query_string=..., validation_status="PRESS_PASSED")
ExecutableStrategy(target, query_string) ==
    [target |-> target, query_string |-> query_string, validation_status |-> "PRESS_PASSED"]

\* StrategyCompiler.compile for a registered target
StrategyCompile(target, pico, h) == ExecutableStrategy(target, QueryString(target, pico, h))

\* mutant: the strategy is always appended
Upsert_Append(strategies, strategy) == Append(strategies, strategy)

\* the upsert of ProtocolDefinition.compile: replace the first entry of the target, or append
Upsert(strategies, strategy) ==
    LET hits == {i \in 1..Len(strategies) : strategies[i].target = strategy.target} IN
    IF hits # {}
    THEN [strategies EXCEPT ![CHOOSE i \in hits : \A j \in hits : i <= j] = strategy]
    ELSE Append(strategies, strategy)

\* mutant: an unregistered target is compiled for PUBMED
CompileOutcome_Fallback(strategies, pico, h, target) ==
    LET strategy == StrategyCompile(IF target \in Registry THEN target ELSE "PUBMED", pico, h)
    IN  [ret |-> Returned("compile", <<strategy>>),
         strategies |-> Upsert(strategies, strategy)]

\* what protocol.compile(target) does on a protocol of strategies, blocks pico
\* and terms h: the outcome of the call and the strategies after it
CompileOutcome(strategies, pico, h, target) ==
    IF target \notin Registry THEN
        [ret |-> Raised("compile", "ValueError", <<"UnsupportedTarget", target>>),
         strategies |-> strategies]
    ELSE LET strategy == StrategyCompile(target, pico, h) IN
        [ret |-> Returned("compile", <<strategy>>),
         strategies |-> Upsert(strategies, strategy)]

\* mutant: compile refuses a protocol that is approved or executed
compile_Frozen(target) ==
    /\ pc = "idle"
    /\ UNCHANGED research_question
    /\ Call
    /\ veritas' = NoCalls
    /\ IF ModifyGuard(status) # <<>> THEN
            /\ ret' = Raised("compile", "RuntimeError", ModifyGuard(status))
            /\ UNCHANGED execution_strategies
       ELSE /\ ret' = CompileOutcome(execution_strategies, pico_structure, heap, target).ret
            /\ execution_strategies' =
                    CompileOutcome(execution_strategies, pico_structure, heap, target).strategies
    /\ UNCHANGED <<Governance, pico_structure, heap, pc, lock_user, protocol_hash, registered>>

compile(target) ==
    /\ pc = "idle"
    /\ UNCHANGED research_question
    /\ Call
    /\ veritas' = NoCalls
    /\ ret' = CompileOutcome(execution_strategies, pico_structure, heap, target).ret
    /\ execution_strategies' =
            CompileOutcome(execution_strategies, pico_structure, heap, target).strategies
    /\ UNCHANGED <<Governance, pico_structure, heap, pc, lock_user, protocol_hash, registered>>

(***************************************************************************)
(* protocol.pico_structure = v, under validate_assignment=True             *)
(***************************************************************************)
\* the dicts assigned: one item, a block of the protocol or a new block, under a key
AssignInputs ==
    {<<Item(k, b)>> :
        k \in InitKeys,
        b \in {pico_structure[i].block : i \in 1..Len(pico_structure)}
               \cup {PicoBlock("I", Description, <<>>, "OR")}}

\* mutant: the assignment runs no validator
AssignPico_Unvalidated(v) ==
    /\ pc = "idle"
    /\ UNCHANGED research_question
    /\ Call
    /\ veritas' = NoCalls
    /\ pico_structure' = v
    /\ ret' = Returned("assign", <<>>)
    /\ UNCHANGED <<Governance, heap, Rest>>

AssignPico(v) ==
    /\ pc = "idle"
    /\ UNCHANGED research_question
    /\ Call
    /\ veritas' = NoCalls
    /\ IF validate_pico_structure(v) THEN
            /\ pico_structure' = v
            /\ ret' = Returned("assign", <<>>)
       ELSE /\ ret' = Raised("assign", "ValidationError", <<"KeyMismatch">>)
            /\ UNCHANGED pico_structure
    /\ UNCHANGED <<Governance, heap, Rest>>

(***************************************************************************)
(* ProtocolValidator.validate(protocol): the failure it raises, or <<>>.   *)
(* Rules in order, the first failure wins.                                 *)
(***************************************************************************)
RequiredBlocks == <<"P", "I", "O">>

\* the protocols given to the validator, built as the tests build them:
\* required blocks missing, optional blocks present, term lists empty, a
\* logic_operator set past the check of PicoBlock, the first or the last
\* block only
ValidatorKeySeqs ==
    {<<"P", "I", "O">>, <<"P", "O">>, <<"P", "I", "O", "C">>, <<"S", "P", "I", "O">>}
ValidatorTermLists == {<<>>, <<1>>, <<2, 3>>}
ValidatorOperators == {"AND", "NOT", "XOR", "or"}
ValidatorStructures ==
    UNION {
        UNION {
            LET pico == [i \in 1..Len(ks) |->
                            Item(ks[i], PicoBlock(ks[i], Description, tl[i], "OR"))]
            IN  {pico}
                \cup {[pico EXCEPT ![1].block.logic_operator = op] : op \in ValidatorOperators}
                \cup {[pico EXCEPT ![Len(ks)].block.logic_operator = "XOR"]} :
            tl \in [1..Len(ks) -> ValidatorTermLists]} :
        ks \in ValidatorKeySeqs}

\* the caller's terms, or the same with the label of the first one set to
\* whitespace past the check of OntologyTerm
ValidatorHeaps ==
    {[a \in TermAddrs |-> OntologyTerm(a)],
     [a \in TermAddrs |->
        IF a = 1 THEN [OntologyTerm(a) EXCEPT !.label = <<" ", "\t">>] ELSE OntologyTerm(a)]}

InitValidate ==
    \E pico \in ValidatorStructures : \E h \in ValidatorHeaps :
        ConstructOver(ResearchQuestion, DRAFT, None, pico, h)

Least(S) == CHOOSE i \in S : \A j \in S : i <= j

\* mutant: the label and code of inactive terms are checked as well
ProtocolValidator_validate_AllTerms(pico, h) ==
    LET required == 1..Len(RequiredBlocks)
        missing == {i \in required : ~HasKey(pico, RequiredBlocks[i])}
        empty == {i \in required \ missing : Get(pico, RequiredBlocks[i]).terms = <<>>}
        bad == {p \in Positions(pico) : IsBlank(h[TermAt(pico, p)].label)
                                          \/ IsBlank(h[TermAt(pico, p)].code)}
        first == CHOOSE p \in bad : \A q \in bad : Before(p, q)
        badop == {i \in 1..Len(pico) : ~validate_logic_operator(pico[i].block.logic_operator)}
    IN  IF missing # {} THEN <<"MissingRequiredBlock", RequiredBlocks[Least(missing)]>>
        ELSE IF empty # {} THEN <<"BlockEmpty", RequiredBlocks[Least(empty)]>>
        ELSE IF bad # {} THEN
            <<(IF IsBlank(h[TermAt(pico, first)].label) THEN "EmptyLabel" ELSE "EmptyCode"),
              pico[first[1]].block.block_type>>
        ELSE IF badop # {} THEN <<"InvalidLogicOperator", pico[Least(badop)].block.block_type>>
        ELSE <<>>

ProtocolValidator_validate(pico, h) ==
    LET required == 1..Len(RequiredBlocks)
        missing == {i \in required : ~HasKey(pico, RequiredBlocks[i])}
        empty == {i \in required \ missing : Get(pico, RequiredBlocks[i]).terms = <<>>}
        active == {p \in Positions(pico) : h[TermAt(pico, p)].is_active}
        bad == {p \in active : IsBlank(h[TermAt(pico, p)].label)
                                \/ IsBlank(h[TermAt(pico, p)].code)}
        first == CHOOSE p \in bad : \A q \in bad : Before(p, q)
        badop == {i \in 1..Len(pico) : ~validate_logic_operator(pico[i].block.logic_operator)}
    IN  IF missing # {} THEN <<"MissingRequiredBlock", RequiredBlocks[Least(missing)]>>
        ELSE IF empty # {} THEN <<"BlockEmpty", RequiredBlocks[Least(empty)]>>
        ELSE IF bad # {} THEN
            <<(IF IsBlank(h[TermAt(pico, first)].label) THEN "EmptyLabel" ELSE "EmptyCode"),
              pico[first[1]].block.block_type>>
        ELSE IF badop # {} THEN <<"InvalidLogicOperator", pico[Least(badop)].block.block_type>>
        ELSE <<>>

\* ProtocolValidator.validate(protocol), called on its own
validate ==
    /\ pc = "idle"
    /\ calls < MaxCalls
    /\ calls' = calls + 1
    /\ veritas' = NoCalls
    /\ ret' = LET failure == ProtocolValidator_validate(pico_structure, heap)
              IN  IF failure = <<>> THEN Returned("validate", <<>>)
                  ELSE Raised("validate", "ValueError", failure)
    /\ UNCHANGED <<research_question, Governance, pico_structure, heap, Rest>>

(***************************************************************************)
(* The specifications.                                                     *)
(***************************************************************************)
Lock ==
    \/ LockRejected
    \/ LockRegisterRaises
    \/ \E user_id \in UserIds, h \in HashInputs : LockRegister(user_id, h)
    \/ LockRecordRejected
    \/ \E now \in Times : LockRecord(now)
    \/ LockApprove

OverrideTerm == \E term_id \in TermIdInputs, reason \in ReasonInputs : override_term(term_id, reason)

InjectTerm == \E block_type \in InjectBlockTypes, a \in TermAddrs : inject_term(block_type, a)

Compile == \E target \in TargetInputs : compile(target)

Next == Lock \/ OverrideTerm \/ InjectTerm \/ Compile

\* a protocol constructed in any status
Spec == Init /\ [][Next]_vars

\* a protocol constructed with the default status DRAFT and no approval_history
SpecDraft == InitDraft /\ [][Next]_vars

Assign == \E v \in AssignInputs : AssignPico(v)

NextAssign == Next \/ Assign

\* the calls of Spec and assignments to pico_structure
SpecAssign == Init /\ [][NextAssign]_vars

\* the reviewer's override of a term, for one reason, before the first
\* strategy is compiled
ReviewOverride ==
    /\ execution_strategies = <<>>
    /\ \E term_id \in TermIdSet : override_term(term_id, <<"r">>)

NextCompile == ReviewOverride \/ Compile

NextValidate == ReviewOverride \/ validate

\* protocols built by the tests of the validator, reviewed and validated
SpecValidate == InitValidate /\ [][NextValidate]_vars

\* protocols of any block logic, reviewed and compiled
SpecCompile == InitCompile /\ [][NextCompile]_vars

(***************************************************************************)
(* Properties.                                                             *)
(***************************************************************************)
\* the step is a call of lock: it starts one and counts as a call
LockCallStep == pc = "idle" /\ calls' = calls + 1 /\ ret'.op = "lock"

\* the step ends a call of lock with an exception
LockRaisesStep == ret'.op = "lock" /\ ret'.raised # NoException

\* C1: a lock call that fails on a DRAFT protocol without approval_history,
\* whatever the cause, leaves status DRAFT and approval_history unset and
\* does not touch pico_structure (the terms included) or execution_strategies;
\* nor does the step that calls the registrar.
C1_FailedLockLeavesProtocol ==
    [][/\ (status = DRAFT /\ approval_history = None /\ LockRaisesStep)
            => /\ status' = DRAFT
               /\ approval_history' = None
               /\ DumpPico(pico_structure', heap') = DumpPico(pico_structure, heap)
               /\ execution_strategies' = execution_strategies
       /\ (pc = "idle" /\ pc' = "registered") => UNCHANGED Protocol]_vars

\* a lock failed on a DRAFT protocol because the registrar returned a blank hash
C1_Witness ==
    /\ ret = Raised("lock", "ValidationError", <<"veritas_hash cannot be empty">>)
    /\ veritas.calls = 1
    /\ status = DRAFT
    /\ approval_history = None

\* C2: in every state of a protocol that started in DRAFT without
\* approval_history, the states inside lock included, status APPROVED implies
\* that approval_history is set and its veritas_hash is not blank.
C2_ApprovedHasRecord ==
    status = APPROVED =>
        /\ approval_history # None
        /\ ~IsBlank(approval_history[1].veritas_hash)

\* lock has passed through its intermediate state and approved the protocol
C2_Witness ==
    /\ status = APPROVED
    /\ ret = Returned("lock", <<Self>>)
    /\ approval_history # None
    /\ approval_history[1].veritas_hash = <<" ", "h">>

\* C3: lock runs the validator before the registrar: on a DRAFT protocol whose
\* pico_structure is not empty but fails ProtocolValidator.validate, the call
\* raises, register_protocol is not invoked and status stays DRAFT.
C3_LockValidatesFirst ==
    [][(/\ LockCallStep
        /\ status = DRAFT
        /\ pico_structure # <<>>
        /\ ProtocolValidator_validate(pico_structure, heap) # <<>>)
            => /\ ret'.raised # NoException
               /\ veritas'.calls = 0
               /\ status' = DRAFT]_vars

LockSucceeded == registered # None /\ status = APPROVED

\* C5: once a lock has succeeded no step changes status or approval_history,
\* a further lock raises without registering, and no step of any run moves
\* status backward in DRAFT, PENDING_REVIEW, APPROVED, EXECUTED.
C5_ApprovalIsFinal ==
    [][/\ LockSucceeded
            => /\ approval_history # None
               /\ status' = APPROVED
               /\ approval_history' = approval_history
               /\ LockCallStep => (ret'.raised = "ValueError" /\ veritas'.calls = 0)
       /\ StatusRank(status') >= StatusRank(status)]_vars

\* after a successful lock a second lock was attempted and raised
C5_Witness ==
    /\ LockSucceeded
    /\ ret = Raised("lock", "ValueError", <<"AlreadyApprovedOrExecuted">>)

\* the step is a call of override_term or inject_term
ModifyCallStep ==
    pc = "idle" /\ calls' = calls + 1 /\ ret'.op \in {"override_term", "inject_term"}

\* C6: override_term and inject_term return normally only in DRAFT or
\* PENDING_REVIEW; in APPROVED or EXECUTED they raise the not-modifiable
\* failure naming the status, whatever the arguments, and change no block,
\* no term and not the term object passed in.
C6_ModifyOnlyWhenMutable ==
    [][ModifyCallStep
        => /\ status \in {APPROVED, EXECUTED}
                => /\ ret' = Raised(ret'.op, "RuntimeError", <<"NotModifiable", status>>)
                   /\ UNCHANGED <<pico_structure, heap>>
           /\ ret'.raised = NoException => status \in {DRAFT, PENDING_REVIEW}]_vars

\* inject_term was refused on an approved protocol that lock had approved
C6_Witness ==
    /\ ret = Raised("inject_term", "RuntimeError", <<"NotModifiable", APPROVED>>)
    /\ LockSucceeded

\* no two terms in distinct blocks share an id
GloballyUnique(pico, h) ==
    \A p, q \in Positions(pico) :
        p[1] # q[1] => h[TermAt(pico, p)].id # h[TermAt(pico, q)].id

\* C7: global id uniqueness: after construction and after every call that
\* returned normally, no two terms in distinct blocks of pico_structure
\* share an id.
C7_GlobalIdUniqueness ==
    (pc = "idle" /\ ret.raised = NoException) => GloballyUnique(pico_structure, heap)

\* every key of pico_structure is the block_type of its block
KeyMatchesBlockType ==
    \A i \in 1..Len(pico_structure) :
        pico_structure[i].block.block_type = pico_structure[i].key

\* the step is an assignment to pico_structure that raised
AssignRaisesStep ==
    pc = "idle" /\ calls' = calls + 1 /\ ret'.op = "assign" /\ ret'.raised # NoException

\* C8: after construction and after every step of inject_term, override_term,
\* lock, compile and assignment to pico_structure, each key of pico_structure
\* is the block_type of its block; an assignment that raises leaves
\* pico_structure as it was.
C8_KeysMatchBlockTypes ==
    /\ KeyMatchesBlockType
    /\ [][/\ KeyMatchesBlockType'
          /\ AssignRaisesStep => pico_structure' = pico_structure]_vars

\* a mismatched assignment was refused on a protocol holding a block that
\* inject_term created
C8_Witness ==
    /\ ret = Raised("assign", "ValidationError", <<"KeyMismatch">>)
    /\ HasKey(pico_structure, "O")
    /\ Get(pico_structure, "O").description = <<"O">>

IsPrefix(s, t) == Len(s) <= Len(t) /\ \A j \in 1..Len(s) : s[j] = t[j]

\* every term with this id in the structure is inactive, and there is one
Deleted(pico, h, id) ==
    /\ Matches(pico, h, id) # {}
    /\ \A p \in Matches(pico, h, id) : ~h[TermAt(pico, p)].is_active

\* C9: terms are soft-deleted only: no step of override_term, inject_term,
\* lock or compile removes a block or a term or reorders the terms of a
\* block, a term object that is inactive stays inactive, and an id whose
\* terms are all inactive gains no active term.
C9_SoftDeleteOnly ==
    [][/\ Len(pico_structure') >= Len(pico_structure)
       /\ \A i \in 1..Len(pico_structure) :
            /\ pico_structure'[i].key = pico_structure[i].key
            /\ IsPrefix(pico_structure[i].block.terms, pico_structure'[i].block.terms)
       /\ \A a \in TermAddrs : ~heap[a].is_active => ~heap'[a].is_active
       /\ \A id \in TermIdSet :
            Deleted(pico_structure, heap, id) => Deleted(pico_structure', heap', id)]_vars

\* the only term of the structure is inactive and the last call, an
\* inject_term that returned without appending, offered its id again
C9_Witness ==
    /\ ret = Returned("inject_term", <<>>)
    /\ Cardinality(Positions(pico_structure)) = 1
    /\ \A p \in Positions(pico_structure) :
        /\ ~heap[TermAt(pico_structure, p)].is_active
        /\ heap[TermAt(pico_structure, p)].override_reason # None

\* C10: a lock call on a DRAFT protocol that passes the guards, with a
\* non-blank hash h returned by register_protocol, ends with status APPROVED
\* and an approval_history of approver_id the user_id passed, veritas_hash h
\* and a UTC timestamp, returns the protocol itself and leaves
\* pico_structure and execution_strategies as they were when it was called.
C10_LockApproves ==
    [][/\ (pc = "idle" /\ pc' = "registered")
            => /\ status = DRAFT
               /\ lock_user' \in UserIds
               /\ veritas'.payload = Some(model_dump)
               /\ UNCHANGED Protocol
       /\ (pc = "registered" /\ pc' = "recorded")
            => UNCHANGED <<lock_user, protocol_hash, veritas>>
       /\ (pc = "recorded" /\ pc' = "idle")
            => /\ ~IsBlank(protocol_hash)
               /\ status' = APPROVED
               /\ approval_history' # None
               /\ approval_history'[1].approver_id = lock_user
               /\ approval_history'[1].veritas_hash = protocol_hash
               /\ approval_history'[1].timestamp.tzinfo = "UTC"
               /\ ret' = Returned("lock", <<Self>>)
               /\ DumpPico(pico_structure', heap') = veritas.payload[1].pico_structure
               /\ execution_strategies' = veritas.payload[1].execution_strategies]_vars

\* lock approved a protocol that the validator accepts, under the hash " h"
C10_Witness ==
    /\ ret = Returned("lock", <<Self>>)
    /\ status = APPROVED
    /\ registered # None
    /\ ProtocolValidator_validate(pico_structure, heap) = <<>>
    /\ approval_history[1].approver_id = "u2"
    /\ approval_history[1].veritas_hash = <<" ", "h">>

\* C11: a lock call invokes register_protocol at most once: zero times when a
\* guard rejects it, once and no more when register_protocol raises (the
\* call ends there), and once when the lock succeeds; the later steps of the
\* call invoke it no further.
C11_RegisterAtMostOnce ==
    [][/\ veritas'.calls <= 1
       /\ (LockCallStep /\ (status # DRAFT \/ pico_structure = <<>>))
            => veritas'.calls = 0
       /\ (LockCallStep /\ ret'.raised = "Exception")
            => (veritas'.calls = 1 /\ pc' = "idle")
       /\ pc # "idle" => veritas' = veritas
       /\ (pc = "recorded" /\ pc' = "idle") => veritas'.calls = 1]_vars

\* register_protocol raised, after one invocation, and the lock call ended
C11_Witness ==
    /\ ret = Raised("lock", "Exception", <<"RegistrarFailure">>)
    /\ veritas.calls = 1
    /\ pc = "idle"
    /\ status = DRAFT

Modifiable == pc = "idle" /\ status \in {DRAFT, PENDING_REVIEW}

\* the step is a call of override_term
OverrideCallStep == pc = "idle" /\ calls' = calls + 1 /\ ret'.op = "override_term"

\* the step is the call override_term(term_id, reason)
IsOverride(term_id, reason) ==
    /\ ret' = OverrideOutcome(status, pico_structure, heap, term_id, reason).ret
    /\ heap' = OverrideOutcome(status, pico_structure, heap, term_id, reason).heap

\* the address of the first term with this id, in the order of the blocks and
\* of their terms
FirstWithId(pico, h, id) ==
    LET found == {p \in Positions(pico) : h[TermAt(pico, p)].id = id}
    IN  TermAt(pico, CHOOSE p \in found : \A q \in found : Before(p, q))

\* C14: override_term overwrites: from a protocol in DRAFT or PENDING_REVIEW,
\* override_term(id, r1) followed by override_term(id, r2), both returning,
\* leaves the term inactive with override_reason r2 and gives the terms that
\* the single call override_term(id, r2) gives.
C14_OverrideOverwrites ==
    [][Modifiable =>
        \A id \in TermIdInputs, r1 \in ReasonInputs, r2 \in ReasonInputs :
            LET first == OverrideOutcome(status, pico_structure, heap, id, r1)
                twice == OverrideOutcome(status, pico_structure, first.heap, id, r2)
                once == OverrideOutcome(status, pico_structure, heap, id, r2)
            IN  (first.ret.raised = NoException /\ twice.ret.raised = NoException)
                    => /\ once.ret.raised = NoException
                       /\ twice.heap = once.heap
                       /\ ~twice.heap[FirstWithId(pico_structure, heap, id)].is_active
                       /\ twice.heap[FirstWithId(pico_structure, heap, id)].override_reason
                            = Some(r2)]_vars

\* override_term returned on a protocol that can be modified again, and a
\* term of the structure carries the reason "r" of an override
C14_Witness ==
    /\ Modifiable
    /\ calls < MaxCalls
    /\ ret = Returned("override_term", <<>>)
    /\ \E p \in Positions(pico_structure) :
        /\ ~heap[TermAt(pico_structure, p)].is_active
        /\ heap[TermAt(pico_structure, p)].override_reason = Some(<<"r">>)

\* C15: an override_term(id, reason) that returns changes one term object, the
\* first whose id matches, in is_active and override_reason only; the other
\* terms, the blocks, the order of their terms, status, approval_history and
\* execution_strategies stay as they were.
C15_OverrideChangesOneTerm ==
    [][/\ Modifiable =>
            \A id \in TermIdInputs, reason \in ReasonInputs :
                LET out == OverrideOutcome(status, pico_structure, heap, id, reason)
                    a == FirstWithId(pico_structure, heap, id)
                IN  out.ret.raised = NoException
                        => /\ \E p \in Positions(pico_structure) :
                                heap[TermAt(pico_structure, p)].id = id
                           /\ out.heap =
                                [heap EXCEPT ![a] = [@ EXCEPT !.is_active = FALSE,
                                                             !.override_reason = Some(reason)]]
       /\ OverrideCallStep
            => /\ \E id \in TermIdInputs, reason \in ReasonInputs : IsOverride(id, reason)
               /\ UNCHANGED <<pico_structure, status, approval_history,
                              execution_strategies>>]_vars

\* override_term returned: of two term objects with the same id in two
\* blocks, the first is inactive and the second still active
C15_Witness ==
    /\ ret = Returned("override_term", <<>>)
    /\ \E p, q \in Positions(pico_structure) :
        /\ p[1] < q[1]
        /\ TermAt(pico_structure, p) # TermAt(pico_structure, q)
        /\ heap[TermAt(pico_structure, p)].id = heap[TermAt(pico_structure, q)].id
        /\ ~heap[TermAt(pico_structure, p)].is_active
        /\ heap[TermAt(pico_structure, q)].is_active

\* C16: on a protocol in DRAFT or PENDING_REVIEW override_term raises
\* ValueError and changes no term when the reason is empty after strip(),
\* whether a term has the id or not, and raises the not-found ValueError
\* naming the id, changing no term, when no block holds a term with the id.
C16_OverrideRejects ==
    [][/\ Modifiable =>
            \A id \in TermIdInputs, reason \in ReasonInputs :
                LET out == OverrideOutcome(status, pico_structure, heap, id, reason)
                    held == \E p \in Positions(pico_structure) :
                                heap[TermAt(pico_structure, p)].id = id
                IN  /\ Strip(reason) = <<>>
                        => /\ out.ret = Raised("override_term", "ValueError",
                                               <<"EmptyReason">>)
                           /\ out.heap = heap
                    /\ (Strip(reason) # <<>> /\ ~held)
                        => /\ out.ret = Raised("override_term", "ValueError",
                                               <<"TermNotFound", id>>)
                           /\ out.heap = heap
       /\ (OverrideCallStep /\ ret'.raised # NoException)
            => UNCHANGED <<heap, pico_structure>>]_vars

\* override_term did not find the id "t9" in a protocol under review that holds terms
C16_Witness ==
    /\ ret = Raised("override_term", "ValueError", <<"TermNotFound", "t9">>)
    /\ status = PENDING_REVIEW
    /\ Positions(pico_structure) # {}

\* the step is a call of inject_term
InjectCallStep == pc = "idle" /\ calls' = calls + 1 /\ ret'.op = "inject_term"

\* the step is the call inject_term(block_type, term), term the object at a
IsInject(block_type, a) ==
    /\ ret' = InjectOutcome(status, pico_structure, heap, block_type, a).ret
    /\ heap' = InjectOutcome(status, pico_structure, heap, block_type, a).heap
    /\ pico_structure' = InjectOutcome(status, pico_structure, heap, block_type, a).pico

\* the block under key k holds a term with this id
BlockHolds(pico, h, k, id) ==
    \E i \in 1..Len(pico) :
        /\ pico[i].key = k
        /\ \E j \in 1..Len(pico[i].block.terms) : h[pico[i].block.terms[j]].id = id

\* the keys of the blocks holding a term with this id
Holders(pico, h, id) == {k \in Keys(pico) : BlockHolds(pico, h, k, id)}

\* C17: an inject_term call that appends the term stores it with origin
\* HUMAN_INJECTION, whatever origin the caller gave it, and with its other
\* fields as given.
C17_InjectedOriginIsHuman ==
    [][/\ Modifiable =>
            \A block_type \in InjectBlockTypes, a \in TermAddrs :
                LET out == InjectOutcome(status, pico_structure, heap, block_type, a)
                IN  (out.ret.raised = NoException /\ out.pico # pico_structure)
                        => /\ HasKey(out.pico, block_type)
                           /\ Get(out.pico, block_type).terms # <<>>
                           /\ LET ts == Get(out.pico, block_type).terms
                              IN  ts[Len(ts)] = a
                           /\ out.heap[a] = [heap[a] EXCEPT !.origin = HUMAN_INJECTION]
       /\ InjectCallStep
            => \E block_type \in InjectBlockTypes, a \in TermAddrs :
                    IsInject(block_type, a)]_vars

\* inject_term appended a term that the caller built with origin
\* SYSTEM_EXPANSION and the block holds it with origin HUMAN_INJECTION
C17_Witness ==
    /\ ret = Returned("inject_term", <<>>)
    /\ \E p \in Positions(pico_structure) :
        /\ OntologyTerm(TermAt(pico_structure, p)).origin = SYSTEM_EXPANSION
        /\ heap[TermAt(pico_structure, p)].origin = HUMAN_INJECTION

\* C18: inject_term(b, t) when block b holds a term with t's id returns
\* without a change: no failure, the same blocks and term lists, every term
\* as it was; and a second inject_term(b, t) after one that returned changes
\* nothing.
C18_SameBlockInjectIsNoOp ==
    [][Modifiable =>
        \A block_type \in InjectBlockTypes, a \in TermAddrs :
            LET out == InjectOutcome(status, pico_structure, heap, block_type, a)
                again == InjectOutcome(status, out.pico, out.heap, block_type, a)
            IN  /\ BlockHolds(pico_structure, heap, block_type, heap[a].id)
                    => /\ out.ret = Returned("inject_term", <<>>)
                       /\ out.pico = pico_structure
                       /\ out.heap = heap
                /\ out.ret.raised = NoException
                    => /\ again.ret = Returned("inject_term", <<>>)
                       /\ again.pico = out.pico
                       /\ again.heap = out.heap]_vars

\* C19: inject_term(b, t) when a block other than b holds a term with t's id
\* raises the conflict ValueError naming the id and a block that holds it,
\* also when that term is inactive, and leaves the blocks and terms as they
\* were.
C19_OtherBlockInjectConflicts ==
    [][Modifiable =>
        \A block_type \in InjectBlockTypes, a \in TermAddrs :
            LET out == InjectOutcome(status, pico_structure, heap, block_type, a)
                others == Holders(pico_structure, heap, heap[a].id) \ {block_type}
            IN  others # {}
                    => /\ out.ret.raised = "ValueError"
                       /\ \E k \in others : out.ret.msg = <<"TermExists", heap[a].id, k>>
                       /\ out.pico = pico_structure
                       /\ out.heap = heap]_vars

\* C20: an inject_term(b, t) that returns, the id of t being in no block,
\* makes t the last term of block b, which it first creates under key b with
\* block_type b, description b and no term when b is absent; the blocks and
\* terms there before keep their content and position, and status,
\* approval_history and execution_strategies stay as they were.
C20_InjectAppends ==
    [][/\ Modifiable =>
            \A block_type \in InjectBlockTypes, a \in TermAddrs :
                LET out == InjectOutcome(status, pico_structure, heap, block_type, a)
                    n == Len(pico_structure)
                IN  (/\ Holders(pico_structure, heap, heap[a].id) = {}
                     /\ out.ret.raised = NoException)
                        => /\ \A i \in 1..n :
                                IF pico_structure[i].key = block_type
                                THEN out.pico[i] =
                                        [pico_structure[i] EXCEPT
                                            !.block.terms = Append(@, a)]
                                ELSE out.pico[i] = pico_structure[i]
                           /\ IF block_type \in Keys(pico_structure)
                              THEN Len(out.pico) = n
                              ELSE /\ Len(out.pico) = n + 1
                                   /\ out.pico[n + 1] =
                                        [key |-> block_type,
                                         block |-> [block_type |-> block_type,
                                                    description |-> <<block_type>>,
                                                    terms |-> <<a>>,
                                                    logic_operator |-> "OR"]]
                           /\ \A b \in TermAddrs \ {a} : out.heap[b] = heap[b]
       /\ InjectCallStep
            => UNCHANGED <<status, approval_history, execution_strategies>>]_vars

\* inject_term created block O for its term, after the blocks and terms that
\* the protocol held
C20_Witness ==
    /\ ret = Returned("inject_term", <<>>)
    /\ Len(pico_structure) = 3
    /\ pico_structure[3].key = "O"
    /\ Len(pico_structure[3].block.terms) = 1
    /\ pico_structure[1].block.terms # <<>>
    /\ Holders(pico_structure, heap, heap[pico_structure[3].block.terms[1]].id) = {"O"}

CompileCallStep == pc = "idle" /\ calls' = calls + 1 /\ ret'.op = "compile"

\* the step is the call compile(target)
IsCompile(target) ==
    /\ ret' = CompileOutcome(execution_strategies, pico_structure, heap, target).ret
    /\ execution_strategies' =
            CompileOutcome(execution_strategies, pico_structure, heap, target).strategies

\* the indexes of the entries of this target
EntriesOf(strategies, target) ==
    {i \in 1..Len(strategies) : strategies[i].target = target}

\* C22: execution_strategies holds at most one entry per target; a compile
\* that returns leaves one entry of its target, the strategy it returned,
\* compiled from the blocks and terms of the call: in place of the entry of
\* the target when there was one, the other entries keeping their
\* positions, and at the end otherwise.
C22_CompileUpserts ==
    [][/\ \A target \in TargetInputs :
            Cardinality(EntriesOf(execution_strategies, target)) <= 1
       /\ CompileCallStep =>
            /\ \E target \in TargetInputs : IsCompile(target)
            /\ \A target \in {"PUBMED", "LANCEDB", "GRAPH"} :
                LET old == EntriesOf(execution_strategies, target)
                    n == Len(execution_strategies)
                IN  IsCompile(target)
                    => /\ ret'.raised = NoException
                       /\ Len(ret'.value) = 1
                       /\ ret'.value[1].target = target
                       /\ ret'.value[1].query_string
                            = QueryString(target, pico_structure, heap)
                       /\ Cardinality(EntriesOf(execution_strategies', target)) = 1
                       /\ \A i \in EntriesOf(execution_strategies', target) :
                            /\ execution_strategies'[i] = ret'.value[1]
                            /\ IF old = {} THEN i = n + 1 ELSE i \in old
                       /\ Len(execution_strategies') = IF old = {} THEN n + 1 ELSE n
                       /\ \A i \in 1..n :
                            i \notin old
                                => execution_strategies'[i] = execution_strategies[i]]_vars

\* PUBMED was compiled again after GRAPH: its entry is still the first and is
\* the strategy the last call returned
C22_Witness ==
    /\ ret.op = "compile"
    /\ ret.raised = NoException
    /\ calls = 3
    /\ Len(execution_strategies) = 2
    /\ execution_strategies[1].target = "PUBMED"
    /\ execution_strategies[2].target = "GRAPH"
    /\ ret.value = <<execution_strategies[1]>>

\* C23: compile for a registered target returns in every status and changes
\* execution_strategies only: status, approval_history, the blocks and
\* every term stay as they were.
C23_CompileChangesStrategiesOnly ==
    [][CompileCallStep
        => /\ UNCHANGED <<status, approval_history, pico_structure, heap>>
           /\ \E target \in TargetInputs :
                /\ IsCompile(target)
                /\ target \in {"PUBMED", "LANCEDB", "GRAPH"} => ret'.raised = NoException
           /\ ret'.raised # NoException
                => ret'.msg[2] \notin {"PUBMED", "LANCEDB", "GRAPH"}]_vars

\* compile returned a strategy on an executed protocol
C23_Witness ==
    /\ status = EXECUTED
    /\ ret.op = "compile"
    /\ ret.raised = NoException
    /\ execution_strategies # <<>>

\* C24: compile with a target that is none of PUBMED, LANCEDB, GRAPH raises
\* ValueError naming the target, returns no strategy and leaves
\* execution_strategies as it was.
C24_UnsupportedTargetRaises ==
    [][/\ pc = "idle" =>
            \A target \in TargetInputs \ {"PUBMED", "LANCEDB", "GRAPH"} :
                LET out == CompileOutcome(execution_strategies, pico_structure, heap, target)
                IN  /\ out.ret = Raised("compile", "ValueError",
                                        <<"UnsupportedTarget", target>>)
                    /\ out.strategies = execution_strategies
       /\ (CompileCallStep /\ ret'.raised # NoException)
            => /\ ret'.value = <<>>
               /\ execution_strategies' = execution_strategies]_vars

\* compile refused the target SQL on a protocol that holds a strategy
C24_Witness ==
    /\ ret = Raised("compile", "ValueError", <<"UnsupportedTarget", "SQL">>)
    /\ execution_strategies # <<>>

\* the dict holding only the block under key k, if there is one
OnlyKey(pico, k) == SelectSeq(pico, LAMBDA item : item.key = k)

\* the block under key k has an active term
HasActive(pico, h, k) ==
    \E i \in 1..Len(pico) :
        /\ pico[i].key = k
        /\ \E j \in 1..Len(pico[i].block.terms) : h[pico[i].block.terms[j]].is_active

\* the dict with its items in the reverse order of insertion
Reversed(pico) == [i \in 1..Len(pico) |-> pico[Len(pico) + 1 - i]]

\* s without its last n characters
DropLast(s, n) == SubSeq(s, 1, Len(s) - n)

\* C25: for PUBMED and GRAPH the blocks contribute in the order P, I, C, O,
\* S whatever the insertion order of the keys: the dict with its keys
\* inserted in the reverse order compiles to the same string, and when P and
\* I both contribute, the part of P comes first.
C25_CanonicalBlockOrder ==
    /\ \A target \in {"PUBMED", "GRAPH"} :
        QueryString(target, Reversed(pico_structure), heap)
            = QueryString(target, pico_structure, heap)
    /\ (HasActive(pico_structure, heap, "P") /\ HasActive(pico_structure, heap, "I"))
        => /\ PubMedCompile(pico_structure, heap) =
                <<"(">> \o PubMedCompile(OnlyKey(pico_structure, "P"), heap)
                \o <<" ", "A", "N", "D", " ">>
                \o PubMedCompile(OnlyKey(pico_structure, "I"), heap) \o <<")">>
           /\ IsPrefix(DropLast(GraphCompile(OnlyKey(pico_structure, "P"), heap),
                                Len(ReturnP)),
                       GraphCompile(pico_structure, heap))

\* GRAPH was compiled for a protocol whose key I was inserted before its key
\* P, both blocks holding an active term
C25_Witness ==
    /\ ret.op = "compile"
    /\ ret.raised = NoException
    /\ ret.value[1].target = "GRAPH"
    /\ ret.value[1].query_string = GraphCompile(pico_structure, heap)
    /\ Keys(pico_structure) = {"P", "I"}
    /\ pico_structure[1].key = "I"
    /\ HasActive(pico_structure, heap, "P")
    /\ HasActive(pico_structure, heap, "I")

\* the dict without its inactive terms and without the blocks left empty
Pruned(pico, h) ==
    LET kept(ts) == SelectSeq(ts, LAMBDA a : h[a].is_active)
        cut == [i \in 1..Len(pico) |->
                    [pico[i] EXCEPT !.block.terms = kept(pico[i].block.terms)]]
    IN  SelectSeq(cut, LAMBDA item : item.block.terms # <<>>)

\* sub occurs in s
Contains(s, sub) ==
    \E i \in 1..(Len(s) - Len(sub) + 1) :
        /\ sub = <<>> \/ s[i] = sub[1]
        /\ SubSeq(s, i, i + Len(sub) - 1) = sub

\* C26: for PUBMED and GRAPH only the active terms contribute: the query is
\* the query of the protocol without its inactive terms and without the
\* blocks that hold no active term, it has no empty parentheses or list, and
\* it is the empty string when no block has an active term.
C26_OnlyActiveTermsCompiled ==
    \A target \in {"PUBMED", "GRAPH"} :
        LET query == QueryString(target, pico_structure, heap) IN
        /\ query = QueryString(target, Pruned(pico_structure, heap), heap)
        /\ ~Contains(query, <<"(", ")">>)
        /\ ~Contains(query, <<"[", "]">>)
        /\ (\A k \in Keys(pico_structure) : ~HasActive(pico_structure, heap, k))
            => query = <<>>
        /\ (\E k \in Keys(pico_structure) : HasActive(pico_structure, heap, k))
            => query # <<>>

\* PUBMED was compiled for a protocol with a block whose two terms are both
\* inactive and a block with an active term
C26_Witness ==
    /\ ret.op = "compile"
    /\ ret.raised = NoException
    /\ ret.value[1].target = "PUBMED"
    /\ ret.value[1].query_string = PubMedCompile(pico_structure, heap)
    /\ \E i, j \in 1..Len(pico_structure) :
        /\ Len(pico_structure[i].block.terms) = 2
        /\ ~HasActive(pico_structure, heap, pico_structure[i].key)
        /\ HasActive(pico_structure, heap, pico_structure[j].key)

\* the active terms of the block under key k, in list order, rendered
RenderedTerms(pico, h, k) ==
    LET ts == SelectSeq(Get(pico, k).terms, LAMBDA a : h[a].is_active)
    IN  [j \in 1..Len(ts) |-> _format_pubmed_term(h[ts[j]])]

\* the reference rendering of the block under key k
ReferenceBlock(pico, h, k) ==
    LET ts == RenderedTerms(pico, h, k)
        op == Get(pico, k).logic_operator
    IN  IF Len(ts) = 1 THEN ts[1]
        ELSE IF op = "OR" THEN <<"(">> \o Join(ts, <<" ", "O", "R", " ">>) \o <<")">>
        ELSE IF op = "AND" THEN <<"(">> \o Join(ts, <<" ", "A", "N", "D", " ">>) \o <<")">>
        ELSE <<"(">>
             \o Join([j \in 1..Len(ts) |->
                        <<"(", "N", "O", "T", " ">> \o ts[j] \o <<")">>],
                     <<" ", "A", "N", "D", " ">>)
             \o <<")">>

\* the reference rendering of the protocol
ReferenceQuery(pico, h) ==
    LET surviving == SelectSeq(<<"P", "I", "C", "O", "S">>,
                               LAMBDA k : HasKey(pico, k) /\ HasActive(pico, h, k))
        blocks == [i \in 1..Len(surviving) |-> ReferenceBlock(pico, h, surviving[i])]
    IN  IF blocks = <<>> THEN <<>>
        ELSE IF Len(blocks) = 1 THEN blocks[1]
        ELSE <<"(">> \o Join(blocks, <<" ", "A", "N", "D", " ">>) \o <<")">>

\* C27: the PUBMED query is the reference rendering: a block with one active
\* term gives the term, with several it gives (t1 OR t2), (t1 AND t2) or
\* ((NOT t1) AND (NOT t2)) by its logic_operator, terms in list order;
\* several surviving blocks are joined by AND in one pair of parentheses in
\* the order P, I, C, O, S, and one surviving block is emitted as it is.
C27_PubMedIsReferenceRendering ==
    PubMedCompile(pico_structure, heap) = ReferenceQuery(pico_structure, heap)

\* PUBMED was compiled for a protocol of two surviving blocks, one a NOT block
\* with two active terms
C27_Witness ==
    /\ ret.op = "compile"
    /\ ret.raised = NoException
    /\ ret.value[1].target = "PUBMED"
    /\ ret.value[1].query_string = PubMedCompile(pico_structure, heap)
    /\ Contains(ret.value[1].query_string,
                <<")", ")", " ", "A", "N", "D", " ", "\"">>)
    /\ \E i, j \in 1..Len(pico_structure) :
        /\ i # j
        /\ pico_structure[i].block.logic_operator = "NOT"
        /\ Len(RenderedTerms(pico_structure, heap, pico_structure[i].key)) = 2
        /\ Len(RenderedTerms(pico_structure, heap, pico_structure[j].key)) = 1

\* C28: in the PUBMED query every active term of a block whose logic_operator
\* is NOT appears negated, as (NOT t), whether the block has one active term
\* or several.
C28_NotBlockNegatesEachTerm ==
    \A i \in 1..Len(pico_structure) :
        pico_structure[i].block.logic_operator = "NOT"
            => LET ts == RenderedTerms(pico_structure, heap, pico_structure[i].key) IN
               \A j \in 1..Len(ts) :
                    Contains(PubMedCompile(pico_structure, heap),
                             <<"(", "N", "O", "T", " ">> \o ts[j] \o <<")">>)

\* the number of double quotes in s
Quotes(s) == Cardinality({i \in 1..Len(s) : s[i] = "\""})

\* C29: a term is rendered for PUBMED as its label, trimmed and with each
\* double quote replaced by a single quote, between two double quotes,
\* followed by [Mesh] when vocab_source is "MeSH" and by [TiAb] otherwise;
\* the rendering has two double quotes, and the query holds the rendering of
\* each active term.
C29_TermRendering ==
    /\ \A a \in TermAddrs :
        LET rendered == _format_pubmed_term(heap[a])
            label == Replace(Strip(heap[a].label), "\"", <<"'">>)
            tag == IF heap[a].vocab_source = "MeSH"
                   THEN <<"[", "M", "e", "s", "h", "]">>
                   ELSE <<"[", "T", "i", "A", "b", "]">>
        IN  /\ rendered = <<"\"">> \o label \o <<"\"">> \o tag
            /\ Quotes(rendered) = 2
            /\ label # <<>>
            /\ label[1] \notin Whitespace
            /\ label[Len(label)] \notin Whitespace
    /\ \A p \in Positions(pico_structure) :
        heap[TermAt(pico_structure, p)].is_active
            => Contains(PubMedCompile(pico_structure, heap),
                        _format_pubmed_term(heap[TermAt(pico_structure, p)]))
    /\ Quotes(PubMedCompile(pico_structure, heap))
        = 2 * Cardinality({p \in Positions(pico_structure) :
                                heap[TermAt(pico_structure, p)].is_active})

\* PUBMED was compiled for a protocol with an active term whose label has a
\* double quote and surrounding whitespace and whose vocab_source is "mesh"
C29_Witness ==
    /\ ret.op = "compile"
    /\ ret.raised = NoException
    /\ ret.value[1].target = "PUBMED"
    /\ ret.value[1].query_string = PubMedCompile(pico_structure, heap)
    /\ \E p \in Positions(pico_structure) :
        LET t == heap[TermAt(pico_structure, p)] IN
        /\ t.is_active
        /\ t.vocab_source = "mesh"
        /\ Quotes(t.label) > 0
        /\ Strip(t.label) # t.label

\* s holds w from index i on
StartsAt(s, i, w) ==
    /\ i >= 1
    /\ i + Len(w) - 1 <= Len(s)
    /\ SubSeq(s, i, i + Len(w) - 1) = w

\* the character a JSON escape of two characters stands for, "" when there is none
JsonUnescape(c) ==
    CASE c = "\"" -> "\""
      [] c = "\\" -> "\\"
      [] c = "/" -> "/"
      [] c = "n" -> "\n"
      [] c = "r" -> "\r"
      [] c = "t" -> "\t"
      [] c = "f" -> "\f"
      [] OTHER -> ""

\* a JSON document that does not parse
JsonError == [ok |-> FALSE, value |-> <<>>, next |-> 0, members |-> <<>>]

\* a JSON decoder reading the characters of a string from index i up to its
\* closing quote: the decoded string and the index after the quote
RECURSIVE JsonReadChars(_, _, _)
JsonReadChars(s, i, acc) ==
    IF i > Len(s) THEN JsonError
    ELSE IF s[i] = "\"" THEN [ok |-> TRUE, value |-> acc, next |-> i + 1, members |-> <<>>]
    ELSE IF s[i] \in {"\n", "\r", "\t", "\f"} THEN JsonError
    ELSE IF s[i] # "\\" THEN JsonReadChars(s, i + 1, Append(acc, s[i]))
    ELSE IF i + 1 > Len(s) THEN JsonError
    ELSE IF s[i + 1] = "u"
        THEN IF StartsAt(s, i + 2, <<"0", "0", "e", "9">>)
             THEN JsonReadChars(s, i + 6, Append(acc, "é"))
             ELSE JsonError
    ELSE IF JsonUnescape(s[i + 1]) = "" THEN JsonError
    ELSE JsonReadChars(s, i + 2, Append(acc, JsonUnescape(s[i + 1])))

\* a JSON decoder reading the members "key": "value" of an object from index
\* i up to the closing brace that ends the document
RECURSIVE JsonReadMembers(_, _, _)
JsonReadMembers(s, i, acc) ==
    IF ~StartsAt(s, i, <<"\"">>) THEN JsonError
    ELSE LET key == JsonReadChars(s, i + 1, <<>>) IN
         IF ~key.ok \/ ~StartsAt(s, key.next, <<":", " ", "\"">>) THEN JsonError
         ELSE LET val == JsonReadChars(s, key.next + 3, <<>>)
                  members == Append(acc, <<key.value, val.value>>)
              IN  IF ~val.ok THEN JsonError
                  ELSE IF StartsAt(s, val.next, <<"}">>) /\ val.next = Len(s)
                      THEN [ok |-> TRUE, value |-> <<>>, next |-> val.next + 1,
                            members |-> members]
                  ELSE IF StartsAt(s, val.next, <<",", " ">>)
                      THEN JsonReadMembers(s, val.next + 2, members)
                  ELSE JsonError

\* json.loads of an object of strings: its members in document order
JsonLoads(s) ==
    IF StartsAt(s, 1, <<"{">>) THEN JsonReadMembers(s, 2, <<>>) ELSE JsonError

SurvivingKeys(pico, h) ==
    SelectSeq(<<"P", "I", "C", "O", "S">>, LAMBDA k : HasKey(pico, k) /\ HasActive(pico, h, k))

\* the number of places of s where w starts
Occurrences(s, w) == Cardinality({i \in 1..Len(s) : s[i] = w[1] /\ StartsAt(s, i, w)})

\* the literal list of the codes of the active terms of the block under key
\* k, in list order, each between single quotes with its single quotes escaped
CodeList(pico, h, k) ==
    LET ts == SelectSeq(Get(pico, k).terms, LAMBDA a : h[a].is_active) IN
    <<"[">>
    \o Join([j \in 1..Len(ts) |->
                <<"'">> \o Replace(h[ts[j]].code, "'", <<"\\", "'">>) \o <<"'">>],
            <<",", " ">>)
    \o <<"]">>

\* the MATCH clause of the i-th surviving block, after its WITH clause when
\* it is not the first
ReferenceClause(pico, h, keys, i) ==
    (IF i = 1
     THEN <<"M", "A", "T", "C", "H", " ", "(", "p", ":", "P", "u", "b", "l", "i", "c",
            "a", "t", "i", "o", "n", ")">>
     ELSE <<"W", "I", "T", "H", " ", "p", " ", "M", "A", "T", "C", "H", " ", "(", "p", ")">>)
    \o <<"-", "[", ":", "H", "A", "S", "_", "M", "E", "S", "H", "]", "-", ">", "(", "t",
         ":", "T", "e", "r", "m", ")", " ", "W", "H", "E", "R", "E", " ", "t", ".", "c",
         "o", "d", "e", " ", "I", "N", " ">>
    \o CodeList(pico, h, keys[i])

\* C31: with k >= 1 surviving blocks the GRAPH query is the anchor MATCH of
\* the first, then WITH p and a MATCH for each further one, then one RETURN
\* p, single spaces between: k MATCH clauses and k - 1 WITH clauses, each
\* MATCH listing the codes of the active terms of its block in list order;
\* with no surviving block it is the empty string.
C31_GraphIsMatchChain ==
    LET query == GraphCompile(pico_structure, heap)
        keys == SurvivingKeys(pico_structure, heap)
        k == Len(keys)
    IN  IF k = 0 THEN query = <<>>
        ELSE /\ query = Join([i \in 1..k |-> ReferenceClause(pico_structure, heap, keys, i)],
                             <<" ">>)
                        \o <<" ", "R", "E", "T", "U", "R", "N", " ", "p">>
             /\ Occurrences(query, <<"M", "A", "T", "C", "H", " ">>) = k
             /\ Occurrences(query, <<"W", "I", "T", "H", " ", "p">>) = k - 1
             /\ Occurrences(query, <<"R", "E", "T", "U", "R", "N", " ", "p">>) = 1

\* GRAPH was compiled for a protocol of three surviving blocks, one of them
\* with two active terms
C31_Witness ==
    /\ ret.op = "compile"
    /\ ret.raised = NoException
    /\ ret.value[1].target = "GRAPH"
    /\ ret.value[1].query_string = GraphCompile(pico_structure, heap)
    /\ Len(SurvivingKeys(pico_structure, heap)) = 3
    /\ Contains(ret.value[1].query_string, <<"'", ",", " ", "'">>)

\* the dict with the logic_operator of every block set to op
WithOperator(pico, op) ==
    [i \in 1..Len(pico) |-> [pico[i] EXCEPT !.block.logic_operator = op]]

\* the terms, each with another label and the vocab_source of the term
\* after it, codes and is_active as they are
Relabelled(h) ==
    [a \in DOMAIN h |->
        [h[a] EXCEPT !.label = <<"z">> \o h[a].label,
                     !.vocab_source = h[(a % Len(h)) + 1].vocab_source]]

\* C35: the GRAPH query is the same when every block has another
\* logic_operator and every term another label and vocab_source: the blocks
\* present and the codes of their active terms decide it, and a NOT or AND
\* block is matched like an OR block.
C35_GraphDependsOnCodesOnly ==
    \A op \in LogicOperators :
        GraphCompile(WithOperator(pico_structure, op), Relabelled(heap))
            = GraphCompile(pico_structure, heap)

\* GRAPH was compiled for a protocol with a NOT block of two active terms,
\* whose PUBMED query is another one when the block is an OR block
C35_Witness ==
    /\ ret.op = "compile"
    /\ ret.raised = NoException
    /\ ret.value[1].target = "GRAPH"
    /\ ret.value[1].query_string = GraphCompile(pico_structure, heap)
    /\ \E i \in 1..Len(pico_structure) :
        /\ pico_structure[i].block.logic_operator = "NOT"
        /\ Len(RenderedTerms(pico_structure, heap, pico_structure[i].key)) = 2
    /\ PubMedCompile(WithOperator(pico_structure, "OR"), heap)
        # PubMedCompile(pico_structure, heap)
    /\ PubMedCompile(pico_structure, Relabelled(heap)) # PubMedCompile(pico_structure, heap)

\* the required blocks the dict lacks
MissingBlocks(pico) == {k \in {"P", "I", "O"} : ~HasKey(pico, k)}

\* the required blocks present without a term, active or not
EmptyBlocks(pico) == {k \in {"P", "I", "O"} : HasKey(pico, k) /\ Get(pico, k).terms = <<>>}

\* the blocks holding an active term whose label or code is blank
BlankBlocks(pico, h) ==
    {pico[p[1]].key : p \in {q \in Positions(pico) :
        /\ h[TermAt(pico, q)].is_active
        /\ \/ Strip(h[TermAt(pico, q)].label) = <<>>
           \/ Strip(h[TermAt(pico, q)].code) = <<>>}}

\* the blocks whose logic_operator is none of the three literals
OperatorBlocks(pico) ==
    {pico[i].key : i \in {j \in 1..Len(pico) :
        pico[j].block.logic_operator \notin {"AND", "OR", "NOT"}}}

\* C32: the validator fails exactly when a block among P, I, O is missing, a
\* required block present has no term, an active term of a present block
\* has a blank label or code, or a logic_operator is none of AND, OR, NOT;
\* the failure is the first of these that applies, in this order, and names
\* a block at fault.  So inactive terms count for non-emptiness and are not
\* checked for label and code, and absent or empty C and S blocks pass.
C32_ValidatorRejects ==
    LET failure == ProtocolValidator_validate(pico_structure, heap)
        missing == MissingBlocks(pico_structure)
        empty == EmptyBlocks(pico_structure)
        blank == BlankBlocks(pico_structure, heap)
        badop == OperatorBlocks(pico_structure)
    IN  /\ ret.op = "validate"
            => ret = IF failure = <<>> THEN Returned("validate", <<>>)
                     ELSE Raised("validate", "ValueError", failure)
        /\ IF missing # {}
                THEN failure[1] = "MissingRequiredBlock" /\ failure[2] \in missing
           ELSE IF empty # {}
                THEN failure[1] = "BlockEmpty" /\ failure[2] \in empty
           ELSE IF blank # {}
                THEN failure[1] \in {"EmptyLabel", "EmptyCode"} /\ failure[2] \in blank
           ELSE IF badop # {}
                THEN failure[1] = "InvalidLogicOperator" /\ failure[2] \in badop
           ELSE failure = <<>>

\* the validator accepted a protocol whose required block holds only an
\* inactive term with a blank code and whose S block is empty
C32_Witness ==
    /\ ret = Returned("validate", <<>>)
    /\ HasKey(pico_structure, "S") /\ Get(pico_structure, "S").terms = <<>>
    /\ \E p \in Positions(pico_structure) :
        /\ ~heap[TermAt(pico_structure, p)].is_active
        /\ heap[TermAt(pico_structure, p)].code = <<>>
        /\ pico_structure[p[1]].key \in {"P", "I", "O"}
        /\ \A j \in 1..Len(pico_structure[p[1]].block.terms) :
                ~heap[pico_structure[p[1]].block.terms[j]].is_active

\* C33: a call of inject_term changes the origin of a term only when it
\* returns with the term appended to a block: after a call that raises, or
\* that leaves the blocks as they were, every term has the origin it had.
C33_OriginChangesOnlyOnAppend ==
    [][InjectCallStep =>
        \A a \in TermAddrs :
            heap'[a].origin # heap[a].origin
                => /\ ret'.raised = NoException
                   /\ \E i \in 1..Len(pico_structure') :
                        LET terms == pico_structure'[i].block.terms IN
                        /\ terms # <<>>
                        /\ terms[Len(terms)] = a
                        /\ \A j \in 1..Len(pico_structure) :
                                pico_structure[j].key = pico_structure'[i].key
                                    => pico_structure[j].block.terms
                                        = SubSeq(terms, 1, Len(terms) - 1)]_vars

\* C34: once a lock has succeeded, the blocks of the protocol, their terms
\* in order and every field of each term, is_active, override_reason and
\* origin among them, are those of the payload the lock gave to
\* register_protocol, whatever calls follow.
C34_ApprovedIsRegistered ==
    LockSucceeded =>
        LET payload == registered[1].pico_structure IN
        /\ Len(payload) = Len(pico_structure)
        /\ \A i \in 1..Len(pico_structure) :
            /\ payload[i].key = pico_structure[i].key
            /\ payload[i].block.block_type = pico_structure[i].block.block_type
            /\ payload[i].block.description = pico_structure[i].block.description
            /\ payload[i].block.logic_operator = pico_structure[i].block.logic_operator
            /\ Len(payload[i].block.terms) = Len(pico_structure[i].block.terms)
            /\ \A j \in 1..Len(pico_structure[i].block.terms) :
                    payload[i].block.terms[j] = heap[pico_structure[i].block.terms[j]]

\* after a successful lock a strategy was compiled and an override was refused
C34_Witness ==
    /\ LockSucceeded
    /\ execution_strategies # <<>>
    /\ ret.op = "override_term"
    /\ ret.raised = "RuntimeError"
    /\ Positions(pico_structure) # {}
====
